---- MODULE Spec2Model ----
(***************************************************************************)
(* DualWriterMode1 (package rest, the dual writer in mode 1): every         *)
(* storage operation is served by LegacyStorage on the caller's path and   *)
(* mirrored to Storage from a goroutine.                                   *)
(*                                                                         *)
(* A request is a sequence of steps, one per blocking call of the handler: *)
(*   Invoke            the caller enters the method, which calls Legacy    *)
(*   Create, Get, ...  Legacy has returned; the handler runs to its return *)
(*                     (Update runs to its call of Storage.Get)            *)
(*   UpdateStorageGet  Storage.Get has returned; Update runs to its return *)
(*   TaskCall          the goroutine derives its context and calls Storage *)
(*   TaskReturn, TaskTimeout, TaskCanceled                                 *)
(*                     the Storage call of the goroutine ends; the metric  *)
(*                     of the goroutine is recorded                        *)
(* runtime.Object values are pointers: the input object, the object Legacy *)
(* returned and the object Storage.Get returned are cells (obj, res, old)  *)
(* that the handler writes through their accessors.                        *)
(*                                                                         *)
(* The module also holds the methods of DualWriterMode1 that only delegate *)
(* (SpecPassthrough) and three units of the repository beside the dual     *)
(* writer: useSplitSizeUpdater (SpecSplit), useGetEssentialsConfiguration  *)
(* (SpecEssentials) and summarySupport (SpecSummary).  Each has a variable *)
(* of its own, which the other specifications leave as it starts.          *)
(***************************************************************************)
EXTENDS Integers, Sequences, FiniteSets, TLC

\* Number of requests the caller issues.
MaxReq == 1

Reqs == 1..MaxReq

\* strconv.Itoa(int(Mode1))
mode == "1"

Methods == {"create", "get", "list", "delete", "delete-collection", "update"}

\* The third metric label: options.Kind or the resource name.
KindLabel == "kind"
NameLabel == "name"

NoErr == "nil"
LegacyErr == "legacy storage error"
StorageErr == "unified storage error"
ErrNotObject == "object does not implement the Object interfaces"
ErrCanceled == "context canceled"

\* errors.New("storage create timeout") and its siblings
TimeoutCause(method) ==
    IF method = "delete-collection"
    THEN "storage deletecollection timeout"
    ELSE "storage " \o method \o " timeout"

(***************************************************************************)
(* runtime.Object values.  kind is "nil" (no object), "meta" (the object   *)
(* has ObjectMeta: meta.Accessor succeeds) or "raw" (a runtime.Object      *)
(* without ObjectMeta: meta.Accessor returns errNotObject).                *)
(***************************************************************************)
Object(kind, uid, rv, labels, spec) ==
    [kind |-> kind, uid |-> uid, rv |-> rv, labels |-> labels, spec |-> spec]

Nil == Object("nil", "", "", {}, "")

\* Objects a caller passes to Create: without identity, with an identity of
\* its own, and one without ObjectMeta.
CreateInputs ==
    { Object("meta", "", "", {"in"}, "new"),
      Object("meta", "uid-caller", "rv-caller", {"in"}, "new"),
      Object("raw", "", "", {}, "new") }

\* What LegacyStorage returns on success: the stored object, with the
\* identity LegacyStorage assigned.
LegacyObject(spec) == Object("meta", "uid-legacy", "rv-legacy", {"legacy"}, spec)
LegacyRaw(spec) == Object("raw", "", "", {}, spec)

\* The copy of the resource Storage holds, with the identity Storage assigned.
StorageObject == Object("meta", "uid-storage", "rv-storage", {"storage"}, "stale")
StorageRaw == Object("raw", "", "", {}, "stale")

\* meta.Accessor(obj): the error it returns.
Accessor(o) == IF o.kind = "meta" THEN NoErr ELSE ErrNotObject

(***************************************************************************)
(* enrichObject(accessorO, accessorC): identity reconciliation.  Copies    *)
(* the unique ID and the version token of the authoritative object onto    *)
(* the object about to be written to Storage and carries forward the       *)
(* labels it misses; a missing accessor makes it a no-op.  The result is   *)
(* the new value of the first object.                                      *)
(***************************************************************************)
enrichObject(accessorO, accessorC) ==
    IF Accessor(accessorO) # NoErr \/ Accessor(accessorC) # NoErr
    THEN accessorO
    ELSE [accessorO EXCEPT !.uid = accessorC.uid,
                           !.rv = accessorC.rv,
                           !.labels = accessorO.labels \cup accessorC.labels]

(***************************************************************************)
(* rest.UpdatedObjectInfo.  An update directive is the caller's directive  *)
(* under a stack of updateWrappers; wraps lists the objects the wrappers   *)
(* supply, outermost first.                                                *)
(***************************************************************************)
Directive(d) == [directive |-> d, wraps |-> << >>]

\* &updateWrapper{upstream: objInfo, updated: o}
updateWrapper(objInfo, o) == [objInfo EXCEPT !.wraps = <<o>> \o objInfo.wraps]

\* updateWrapper.UpdatedObject(ctx, _) = upstream.UpdatedObject(ctx, updated):
\* the object the caller's directive receives as the current object when the
\* store resolves objInfo against cur.
RECURSIVE UpdatedObjectBase(_, _)
UpdatedObjectBase(objInfo, cur) ==
    IF objInfo.wraps = << >>
    THEN cur
    ELSE UpdatedObjectBase([objInfo EXCEPT !.wraps = Tail(objInfo.wraps)],
                           Head(objInfo.wraps))

NoInfo == Directive("")

(***************************************************************************)
(* State.                                                                  *)
(***************************************************************************)
VARIABLES
    pc,         \* pc[r]: "idle", "legacy", "storageGet", "returned", "panicked"
    call,       \* call[r]: the method and its arguments, as the caller passed them
    obj,        \* obj[r]: the caller's input object (Create)
    res,        \* res[r]: the object LegacyStorage returned
    old,        \* old[r]: the object Storage.Get returned (Update)
    legacy,     \* legacy[r]: what LegacyStorage returned, as it returned it
    ret,        \* ret[r]: what the method returned to the caller
    ctxDone,    \* ctxDone[r]: the caller's context is cancelled
    task,       \* task[r]: the goroutine of the request
    metrics,    \* the records of recordLegacyDuration, recordStorageDuration
    storageLog, \* the calls Storage received, in the order it received them
    passthrough, \* the calls of the methods that only delegate, with what they called
    splitSize,  \* useSplitSizeUpdater: the window, the last action, widthCalc
    essentials, \* useGetEssentialsConfiguration: the hook values and the counts
    summary     \* summarySupport: the summary, its columns, the summary read back

vars == <<pc, call, obj, res, old, legacy, ret, ctxDone, task, metrics, storageLog,
          passthrough, splitSize, essentials, summary>>

NoCall == [method |-> "", label |-> "", directive |-> "", obj |-> Nil]
NoResult == [obj |-> Nil, async |-> FALSE, err |-> NoErr]
NoTask == [st |-> "none", method |-> "", info |-> NoInfo, arg |-> Nil,
           err |-> NoErr, cause |-> ""]

\* The state before the first call, for the requests of R.
InitOf(R) ==
    /\ pc = [r \in R |-> "idle"]
    /\ call = [r \in R |-> NoCall]
    /\ obj = [r \in R |-> Nil]
    /\ res = [r \in R |-> Nil]
    /\ old = [r \in R |-> Nil]
    /\ legacy = [r \in R |-> NoResult]
    /\ ret = [r \in R |-> NoResult]
    /\ ctxDone = [r \in R |-> FALSE]
    /\ task = [r \in R |-> NoTask]
    /\ metrics = [r \in R |-> << >>]
    /\ storageLog = << >>

\* Nothing was called on the other units.
NoPassthrough == << >>
NoSplit == [st |-> "none"]
NoEssentials == [st |-> "none"]
NoSummary == [st |-> "none"]

Init ==
    /\ InitOf(Reqs)
    /\ passthrough = NoPassthrough
    /\ splitSize = NoSplit
    /\ essentials = NoEssentials
    /\ summary = NoSummary

(***************************************************************************)
(* dualWriterMetrics.  One record per call of recordLegacyDuration or      *)
(* recordStorageDuration, kept per request: metrics[r] lists the records   *)
(* request r made, in the order it made them.                              *)
(***************************************************************************)
recordLegacyDuration(m, isError, md, name, method, r) ==
    [m EXCEPT ![r] = Append(@, [store |-> "legacy", failed |-> isError, mode |-> md,
                                name |-> name, method |-> method])]

recordStorageDuration(m, isError, md, name, method, r) ==
    [m EXCEPT ![r] = Append(@, [store |-> "storage", failed |-> isError, mode |-> md,
                                name |-> name, method |-> method])]

\* err != nil
FailedNever(err) == FALSE

Failed(err) == err # NoErr

\* time.Second*10
StorageTimeout == 10

\* The context of a Storage call: the context of the request as the caller
\* passed it (no deadline of its own), or
\* context.WithTimeoutCause(ctx, timeout, cause).
RequestContext == [deadline |-> FALSE, timeout |-> 0, cause |-> ""]
WithTimeoutCause(timeout, cause) == [deadline |-> TRUE, timeout |-> timeout, cause |-> cause]

\* One call of a method of Storage: who makes it and under which context.
StorageCall(r, method, by, ctx) == [req |-> r, method |-> method, by |-> by, ctx |-> ctx]

\* go func() { ... }(): the goroutine exists and has not run yet.
GoNever(method, objInfo) ==
    [st |-> "none", method |-> "", info |-> Directive(""), arg |-> Nil,
     err |-> NoErr, cause |-> ""]

Go(method, objInfo) ==
    [st |-> "spawned", method |-> method, info |-> objInfo, arg |-> Nil,
     err |-> NoErr, cause |-> ""]

(***************************************************************************)
(* What LegacyStorage and Storage answer.                                  *)
(***************************************************************************)
LegacyFailure == [obj |-> Nil, async |-> FALSE, err |-> LegacyErr]

LegacyCreates ==
    { [obj |-> LegacyObject("new"), async |-> FALSE, err |-> NoErr],
      [obj |-> LegacyRaw("new"), async |-> FALSE, err |-> NoErr],
      LegacyFailure }

LegacyReads ==
    { [obj |-> LegacyObject("stored"), async |-> FALSE, err |-> NoErr],
      LegacyFailure }

LegacyDeletes ==
    { [obj |-> LegacyObject("stored"), async |-> TRUE, err |-> NoErr],
      LegacyFailure }

LegacyUpdates ==
    { [obj |-> LegacyObject("patched"), async |-> TRUE, err |-> NoErr],
      [obj |-> LegacyRaw("patched"), async |-> TRUE, err |-> NoErr],
      LegacyFailure }

StorageGets ==
    { [obj |-> StorageObject, err |-> NoErr],
      [obj |-> StorageRaw, err |-> NoErr],
      [obj |-> Nil, err |-> StorageErr] }

(***************************************************************************)
(* The caller enters a method of DualWriterMode1; the method calls         *)
(* LegacyStorage and waits for it.  The caller issues its requests one     *)
(* after the other; the goroutines of earlier requests keep running.       *)
(***************************************************************************)
LabelOfKind(method) == KindLabel

LabelOf(method) ==
    IF method \in {"create", "list", "delete-collection"} THEN KindLabel ELSE NameLabel

InvokeOf(r, methods) ==
    /\ pc[r] = "idle"
    /\ r > 1 => pc[r - 1] \in {"returned", "panicked"}
    /\ \E method \in methods :
         \E o \in IF method = "create" THEN CreateInputs ELSE {Nil} :
            /\ call' = [call EXCEPT ![r] =
                   [method |-> method, label |-> LabelOf(method),
                    directive |-> IF method = "update" THEN "patch" ELSE "",
                    obj |-> o]]
            /\ obj' = [obj EXCEPT ![r] = o]
    /\ pc' = [pc EXCEPT ![r] = "legacy"]
    /\ UNCHANGED <<res, old, legacy, ret, ctxDone, task, metrics, storageLog>>
    /\ UNCHANGED <<passthrough, splitSize, essentials, summary>>

\* The goroutine started at the entry of the method, before Legacy is called.
InvokeMirrorsFirst(r) ==
    /\ pc[r] = "idle"
    /\ r > 1 => pc[r - 1] \in {"returned", "panicked"}
    /\ \E method \in Methods :
         \E o \in IF method = "create" THEN CreateInputs ELSE {Nil} :
            /\ call' = [call EXCEPT ![r] =
                   [method |-> method, label |-> LabelOf(method),
                    directive |-> IF method = "update" THEN "patch" ELSE "",
                    obj |-> o]]
            /\ obj' = [obj EXCEPT ![r] = o]
            /\ task' = [task EXCEPT ![r] = Go(method, NoInfo)]
    /\ pc' = [pc EXCEPT ![r] = "legacy"]
    /\ UNCHANGED <<res, old, legacy, ret, ctxDone, metrics, storageLog>>
    /\ UNCHANGED <<passthrough, splitSize, essentials, summary>>

Invoke(r) == InvokeOf(r, Methods)

(***************************************************************************)
(* Create, from the return of Legacy.Create to the return of the method.   *)
(***************************************************************************)
Create(r) ==
    /\ pc[r] = "legacy"
    /\ call[r].method = "create"
    /\ \E out \in LegacyCreates :
         /\ legacy' = [legacy EXCEPT ![r] = out]
         /\ res' = [res EXCEPT ![r] = out.obj]
         /\ IF Failed(out.err)
            THEN /\ metrics' = recordLegacyDuration(metrics, TRUE, mode, call[r].label, "create", r)
                 /\ ret' = [ret EXCEPT ![r] = [obj |-> out.obj, async |-> FALSE, err |-> out.err]]
                 /\ UNCHANGED <<obj, task>>
            ELSE LET errCreated == Accessor(out.obj)
                     errOld == Accessor(obj[r])
                 IN  /\ metrics' = recordLegacyDuration(metrics, FALSE, mode, call[r].label, "create", r)
                     /\ obj' = [obj EXCEPT ![r] = enrichObject(obj[r], out.obj)]
                     /\ task' = [task EXCEPT ![r] = Go("create", NoInfo)]
                     \* err was assigned by both meta.Accessor calls
                     /\ ret' = [ret EXCEPT ![r] = [obj |-> out.obj, async |-> FALSE, err |-> errOld]]
    /\ pc' = [pc EXCEPT ![r] = "returned"]
    /\ UNCHANGED <<call, old, ctxDone, storageLog>>
    /\ UNCHANGED <<passthrough, splitSize, essentials, summary>>

(***************************************************************************)
(* Get, List and Delete: the same shape, with an early return on a Legacy  *)
(* error.                                                                  *)
(***************************************************************************)
Get(r) ==
    /\ pc[r] = "legacy"
    /\ call[r].method = "get"
    /\ \E out \in LegacyReads :
         /\ legacy' = [legacy EXCEPT ![r] = out]
         /\ res' = [res EXCEPT ![r] = out.obj]
         /\ IF Failed(out.err)
            THEN /\ metrics' = recordLegacyDuration(metrics, TRUE, mode, call[r].label, "get", r)
                 /\ task' = task
            ELSE /\ metrics' = recordLegacyDuration(metrics, FALSE, mode, call[r].label, "get", r)
                 /\ task' = [task EXCEPT ![r] = Go("get", NoInfo)]
         /\ ret' = [ret EXCEPT ![r] = [obj |-> out.obj, async |-> FALSE, err |-> out.err]]
    /\ pc' = [pc EXCEPT ![r] = "returned"]
    /\ UNCHANGED <<call, obj, old, ctxDone, storageLog>>
    /\ UNCHANGED <<passthrough, splitSize, essentials, summary>>

List(r) ==
    /\ pc[r] = "legacy"
    /\ call[r].method = "list"
    /\ \E out \in LegacyReads :
         /\ legacy' = [legacy EXCEPT ![r] = out]
         /\ res' = [res EXCEPT ![r] = out.obj]
         /\ IF Failed(out.err)
            THEN /\ metrics' = recordLegacyDuration(metrics, TRUE, mode, call[r].label, "list", r)
                 /\ task' = task
            ELSE /\ metrics' = recordLegacyDuration(metrics, FALSE, mode, call[r].label, "list", r)
                 /\ task' = [task EXCEPT ![r] = Go("list", NoInfo)]
         /\ ret' = [ret EXCEPT ![r] = [obj |-> out.obj, async |-> FALSE, err |-> out.err]]
    /\ pc' = [pc EXCEPT ![r] = "returned"]
    /\ UNCHANGED <<call, obj, old, ctxDone, storageLog>>
    /\ UNCHANGED <<passthrough, splitSize, essentials, summary>>

Delete(r) ==
    /\ pc[r] = "legacy"
    /\ call[r].method = "delete"
    /\ \E out \in LegacyDeletes :
         /\ legacy' = [legacy EXCEPT ![r] = out]
         /\ res' = [res EXCEPT ![r] = out.obj]
         /\ IF Failed(out.err)
            THEN /\ metrics' = recordLegacyDuration(metrics, TRUE, mode, call[r].label, "delete", r)
                 /\ task' = task
            ELSE /\ metrics' = recordLegacyDuration(metrics, FALSE, mode, call[r].label, "delete", r)
                 /\ task' = [task EXCEPT ![r] = Go("delete", NoInfo)]
         /\ ret' = [ret EXCEPT ![r] = [obj |-> out.obj, async |-> out.async, err |-> out.err]]
    /\ pc' = [pc EXCEPT ![r] = "returned"]
    /\ UNCHANGED <<call, obj, old, ctxDone, storageLog>>
    /\ UNCHANGED <<passthrough, splitSize, essentials, summary>>

(***************************************************************************)
(* DeleteCollection: the error branch records the failure and does not     *)
(* return, so the success record and the goroutine follow in every case.   *)
(***************************************************************************)
DeleteCollection(r) ==
    /\ pc[r] = "legacy"
    /\ call[r].method = "delete-collection"
    /\ \E out \in LegacyReads :
         /\ legacy' = [legacy EXCEPT ![r] = out]
         /\ res' = [res EXCEPT ![r] = out.obj]
         /\ LET m1 == IF Failed(out.err)
                      THEN recordLegacyDuration(metrics, TRUE, mode, call[r].label, "delete-collection", r)
                      ELSE metrics
            IN  metrics' = recordLegacyDuration(m1, FALSE, mode, call[r].label, "delete-collection", r)
         /\ task' = [task EXCEPT ![r] = Go("delete-collection", NoInfo)]
         /\ ret' = [ret EXCEPT ![r] = [obj |-> out.obj, async |-> FALSE, err |-> out.err]]
    /\ pc' = [pc EXCEPT ![r] = "returned"]
    /\ UNCHANGED <<call, obj, old, ctxDone, storageLog>>
    /\ UNCHANGED <<passthrough, splitSize, essentials, summary>>

(***************************************************************************)
(* Update, first half: from the return of Legacy.Update to the call of     *)
(* Storage.Get, which the method makes itself, under the caller's context. *)
(* objInfo.UpdatedObject(ctx, res) is called for its error only.           *)
(***************************************************************************)
UpdateLegacy(r) ==
    /\ pc[r] = "legacy"
    /\ call[r].method = "update"
    /\ \E out \in LegacyUpdates :
         /\ legacy' = [legacy EXCEPT ![r] = out]
         /\ res' = [res EXCEPT ![r] = out.obj]
         /\ LET m1 == IF Failed(out.err)
                      THEN recordLegacyDuration(metrics, TRUE, mode, call[r].label, "update", r)
                      ELSE metrics
            IN  metrics' = recordLegacyDuration(m1, FALSE, mode, call[r].label, "update", r)
    /\ storageLog' = Append(storageLog, StorageCall(r, "get", "caller", RequestContext))
    /\ pc' = [pc EXCEPT ![r] = "storageGet"]
    /\ UNCHANGED <<call, obj, old, ret, ctxDone, task>>
    /\ UNCHANGED <<passthrough, splitSize, essentials, summary>>

(***************************************************************************)
(* Update, second half: from the return of Storage.Get to the return of    *)
(* the method.  With a copy found, the accessors of the copy and of the    *)
(* Legacy result are used without a check: a nil accessor panics.          *)
(***************************************************************************)
\* objInfo once a copy was found: wrapped around the copy, then around res.
WrapOuterOnly(objInfo, oldObj, resObj) ==
    updateWrapper(objInfo, resObj)

WrapTwiceSwapped(objInfo, oldObj, resObj) ==
    updateWrapper(updateWrapper(objInfo, resObj), oldObj)

WrapTwice(objInfo, oldObj, resObj) ==
    updateWrapper(updateWrapper(objInfo, oldObj), resObj)

\* return res, async, errLegacy (err is the error of Storage.Get)
UpdateResultLastErr(o, async, errLegacy, err) ==
    [obj |-> o, async |-> async, err |-> err]

UpdateResult(o, async, errLegacy, err) ==
    [obj |-> o, async |-> async, err |-> errLegacy]

UpdateStorageGet(r) ==
    /\ pc[r] = "storageGet"
    /\ \E out \in StorageGets :
         IF out.obj # Nil
         THEN IF Failed(Accessor(out.obj)) \/ Failed(Accessor(res[r]))
              THEN /\ old' = [old EXCEPT ![r] = out.obj]
                   /\ pc' = [pc EXCEPT ![r] = "panicked"]
                   /\ UNCHANGED <<res, ret, task>>
              ELSE LET reconciled == [res[r] EXCEPT !.rv = out.obj.rv, !.uid = out.obj.uid]
                       enriched == enrichObject(out.obj, reconciled)
                       objInfo == WrapTwice(Directive(call[r].directive), enriched, reconciled)
                   IN  /\ res' = [res EXCEPT ![r] = reconciled]
                       /\ old' = [old EXCEPT ![r] = enriched]
                       /\ task' = [task EXCEPT ![r] = Go("update", objInfo)]
                       /\ ret' = [ret EXCEPT ![r] =
                              UpdateResult(reconciled, legacy[r].async, legacy[r].err, out.err)]
                       /\ pc' = [pc EXCEPT ![r] = "returned"]
         ELSE /\ task' = [task EXCEPT ![r] = Go("update", Directive(call[r].directive))]
              /\ ret' = [ret EXCEPT ![r] =
                     UpdateResult(res[r], legacy[r].async, legacy[r].err, out.err)]
              /\ pc' = [pc EXCEPT ![r] = "returned"]
              /\ UNCHANGED <<res, old>>
    /\ UNCHANGED <<call, obj, legacy, ctxDone, metrics, storageLog>>
    /\ UNCHANGED <<passthrough, splitSize, essentials, summary>>

(***************************************************************************)
(* The goroutine.  Its context is derived from the context of the request  *)
(* with a 10 s timeout, so it is done when the timeout fires or when the   *)
(* context of the request is cancelled.                                    *)
(***************************************************************************)
\* The goroutines run one after the other, in the order they were started.
TaskCallInOrder(r) ==
    /\ task[r].st = "spawned"
    /\ \A q \in DOMAIN task : q < r => task[q].st # "spawned"
    /\ task' = [task EXCEPT ![r].st = "called",
                            ![r].arg = IF task[r].method = "create" THEN obj[r] ELSE Nil]
    /\ storageLog' = Append(storageLog,
            StorageCall(r, task[r].method, "goroutine",
                        WithTimeoutCause(StorageTimeout, TimeoutCause(task[r].method))))
    /\ UNCHANGED <<pc, call, obj, res, old, legacy, ret, ctxDone, metrics>>
    /\ UNCHANGED <<passthrough, splitSize, essentials, summary>>

TaskCall(r) ==
    /\ task[r].st = "spawned"
    /\ task' = [task EXCEPT ![r].st = "called",
                            ![r].arg = IF task[r].method = "create" THEN obj[r] ELSE Nil]
    /\ storageLog' = Append(storageLog,
            StorageCall(r, task[r].method, "goroutine",
                        WithTimeoutCause(StorageTimeout, TimeoutCause(task[r].method))))
    /\ UNCHANGED <<pc, call, obj, res, old, legacy, ret, ctxDone, metrics>>
    /\ UNCHANGED <<passthrough, splitSize, essentials, summary>>

\* A failed Storage call is made again.
TaskEndRetry(r, err, cause) ==
    /\ task' = [task EXCEPT ![r].st = IF err # NoErr THEN "spawned" ELSE "ended",
                            ![r].err = err, ![r].cause = cause]
    /\ metrics' = recordStorageDuration(metrics, err # NoErr, mode, call[r].label, task[r].method, r)
    /\ UNCHANGED <<pc, call, obj, res, old, legacy, ret, ctxDone, storageLog>>
    /\ UNCHANGED <<passthrough, splitSize, essentials, summary>>

TaskEnd(r, err, cause) ==
    /\ task' = [task EXCEPT ![r].st = "ended", ![r].err = err, ![r].cause = cause]
    /\ metrics' = recordStorageDuration(metrics, Failed(err), mode, call[r].label, task[r].method, r)
    /\ UNCHANGED <<pc, call, obj, res, old, legacy, ret, ctxDone, storageLog>>
    /\ UNCHANGED <<passthrough, splitSize, essentials, summary>>

TaskReturn(r) ==
    /\ task[r].st = "called"
    /\ \E err \in {NoErr, StorageErr} : TaskEnd(r, err, "completed")

TaskTimeout(r) ==
    /\ task[r].st = "called"
    /\ TaskEnd(r, TimeoutCause(task[r].method), "timeout")

TaskCanceled(r) ==
    /\ task[r].st = "called"
    /\ ctxDone[r]
    /\ TaskEnd(r, ErrCanceled, "canceled")

(***************************************************************************)
(* The caller, after the method returned: it cancels the context of the    *)
(* request, or writes the object it passed to Create.  Only the steps a    *)
(* goroutine can still observe are taken.                                  *)
(***************************************************************************)
CancelContext(r) ==
    /\ pc[r] = "returned"
    /\ task[r].st \in {"spawned", "called"}
    /\ ~ctxDone[r]
    /\ ctxDone' = [ctxDone EXCEPT ![r] = TRUE]
    /\ UNCHANGED <<pc, call, obj, res, old, legacy, ret, task, metrics, storageLog>>
    /\ UNCHANGED <<passthrough, splitSize, essentials, summary>>

CallerWrites(r) ==
    /\ pc[r] = "returned"
    /\ task[r].st = "spawned"
    /\ task[r].method = "create"
    /\ obj[r].kind = "meta"
    /\ obj[r].uid # "uid-rewritten"
    /\ obj' = [obj EXCEPT ![r].uid = "uid-rewritten", ![r].rv = "rv-rewritten"]
    /\ UNCHANGED <<pc, call, res, old, legacy, ret, ctxDone, task, metrics, storageLog>>
    /\ UNCHANGED <<passthrough, splitSize, essentials, summary>>

Next ==
    \E r \in Reqs :
        \/ Invoke(r)
        \/ Create(r)
        \/ Get(r)
        \/ List(r)
        \/ Delete(r)
        \/ DeleteCollection(r)
        \/ UpdateLegacy(r)
        \/ UpdateStorageGet(r)
        \/ TaskCall(r)
        \/ TaskReturn(r)
        \/ TaskTimeout(r)
        \/ TaskCanceled(r)
        \/ CancelContext(r)
        \/ CallerWrites(r)

Spec == Init /\ [][Next]_vars

(***************************************************************************)
(* Scheduling.  A goroutine that was started runs, and a Storage call it   *)
(* made ends: Storage honours the deadline of the context, so the timeout  *)
(* ends the call if nothing else does.                                     *)
(***************************************************************************)
Fairness ==
    \A r \in Reqs :
        /\ WF_vars(TaskCall(r))
        /\ WF_vars(TaskReturn(r) \/ TaskTimeout(r) \/ TaskCanceled(r))

FairSpec == Spec /\ Fairness

(***************************************************************************)
(* Two writes of one resource, one after the other: the caller updates or  *)
(* deletes the resource, and again once the first method has returned.     *)
(***************************************************************************)
\* Number of writes of the resource.
MaxOrder == 2

OrderReqs == 1..MaxOrder

InitOrder ==
    /\ InitOf(OrderReqs)
    /\ passthrough = NoPassthrough
    /\ splitSize = NoSplit
    /\ essentials = NoEssentials
    /\ summary = NoSummary

InvokeOrder(r) == InvokeOf(r, {"update", "delete"})

NextOrder ==
    \E r \in OrderReqs :
        \/ InvokeOrder(r)
        \/ Delete(r)
        \/ UpdateLegacy(r)
        \/ UpdateStorageGet(r)
        \/ TaskCall(r)
        \/ TaskReturn(r)
        \/ TaskTimeout(r)

SpecOrder == InitOrder /\ [][NextOrder]_vars

(***************************************************************************)
(* The methods that only delegate: Destroy, GetSingularName,               *)
(* NamespaceScoped, New, NewList, ConvertToTable.  passthrough lists the   *)
(* calls the caller made of them; each entry holds the calls the method    *)
(* made on Legacy and Storage, in order, and what it returned.             *)
(***************************************************************************)
\* Number of calls of these methods.
MaxPass == 3

\* What a store's method returns: the store's own value.
StoreValue(store, method, v) == [of |-> store, method |-> method, v |-> v]
Nothing == [of |-> "", method |-> "", v |-> ""]

\* One call of a store's method, with what it returned.
Delegate(store, method, arg, v) ==
    [store |-> store, method |-> method, arg |-> arg,
     value |-> IF method = "Destroy" THEN Nothing ELSE StoreValue(store, method, v)]

\* The entry of one call of a method, appended to the calls so far.
Called(method, arg, calls, value) ==
    Append(passthrough, [method |-> method, arg |-> arg, calls |-> calls, ret |-> value])

\* d.Storage.Destroy(); d.Legacy.Destroy()
Destroy ==
    /\ Len(passthrough) < MaxPass
    /\ passthrough' = Called("Destroy", "",
            <<Delegate("storage", "Destroy", "", ""), Delegate("legacy", "Destroy", "", "")>>,
            Nothing)
    /\ UNCHANGED <<pc, call, obj, res, old, legacy, ret, ctxDone, task, metrics, storageLog>>
    /\ UNCHANGED <<splitSize, essentials, summary>>

\* return d.Legacy.GetSingularName()
GetSingularName ==
    /\ Len(passthrough) < MaxPass
    /\ LET c == Delegate("legacy", "GetSingularName", "", "singular")
       IN  passthrough' = Called("GetSingularName", "", <<c>>, c.value)
    /\ UNCHANGED <<pc, call, obj, res, old, legacy, ret, ctxDone, task, metrics, storageLog>>
    /\ UNCHANGED <<splitSize, essentials, summary>>

\* return d.Legacy.NamespaceScoped()
NamespaceScoped ==
    /\ Len(passthrough) < MaxPass
    /\ \E scoped \in {"true", "false"} :
            LET c == Delegate("legacy", "NamespaceScoped", "", scoped)
            IN  passthrough' = Called("NamespaceScoped", "", <<c>>, c.value)
    /\ UNCHANGED <<pc, call, obj, res, old, legacy, ret, ctxDone, task, metrics, storageLog>>
    /\ UNCHANGED <<splitSize, essentials, summary>>

\* return d.Legacy.New()
New ==
    /\ Len(passthrough) < MaxPass
    /\ LET c == Delegate("legacy", "New", "", "object")
       IN  passthrough' = Called("New", "", <<c>>, c.value)
    /\ UNCHANGED <<pc, call, obj, res, old, legacy, ret, ctxDone, task, metrics, storageLog>>
    /\ UNCHANGED <<splitSize, essentials, summary>>

NewListOfLegacy ==
    /\ Len(passthrough) < MaxPass
    /\ LET c == Delegate("legacy", "NewList", "", "list")
       IN  passthrough' = Called("NewList", "", <<c>>, c.value)
    /\ UNCHANGED <<pc, call, obj, res, old, legacy, ret, ctxDone, task, metrics, storageLog>>
    /\ UNCHANGED <<splitSize, essentials, summary>>

\* return d.Storage.NewList()
NewList ==
    /\ Len(passthrough) < MaxPass
    /\ LET c == Delegate("storage", "NewList", "", "list")
       IN  passthrough' = Called("NewList", "", <<c>>, c.value)
    /\ UNCHANGED <<pc, call, obj, res, old, legacy, ret, ctxDone, task, metrics, storageLog>>
    /\ UNCHANGED <<splitSize, essentials, summary>>

\* return d.Legacy.ConvertToTable(ctx, object, tableOptions)
ConvertToTable ==
    /\ Len(passthrough) < MaxPass
    /\ \E object \in {"object-1", "object-2"} :
            LET c == Delegate("legacy", "ConvertToTable", object, "table of " \o object)
            IN  passthrough' = Called("ConvertToTable", object, <<c>>, c.value)
    /\ UNCHANGED <<pc, call, obj, res, old, legacy, ret, ctxDone, task, metrics, storageLog>>
    /\ UNCHANGED <<splitSize, essentials, summary>>

InitPassthrough ==
    /\ InitOf({})
    /\ passthrough = NoPassthrough
    /\ splitSize = NoSplit
    /\ essentials = NoEssentials
    /\ summary = NoSummary

NextPassthrough ==
    \/ Destroy
    \/ GetSingularName
    \/ NamespaceScoped
    \/ New
    \/ NewList
    \/ ConvertToTable

SpecPassthrough == InitPassthrough /\ [][NextPassthrough]_vars

(***************************************************************************)
(* useSplitSizeUpdater(minWidth), as its test renders it: a store with the *)
(* panes left and right, in a window whose half is 512 wide.  The hook     *)
(* returns updateSplitSize and widthCalc.  updateSplitSize(size) dispatches*)
(* splitSizeUpdateAction and keeps the ratio of size to the window; the    *)
(* panes count as similar when size is within a margin of half the window. *)
(* The test fixes the margin only between its sizes: 450 is similar, 300   *)
(* and 700 are not; the margin is any value that agrees with them.         *)
(***************************************************************************)
minWidth == 200
HalfWindow == 512
SimilarSize == 450
LeftSize == 300
RightSize == 700

WindowWidth == 2 * HalfWindow

\* The panes of the store, in their order.
PanesSwapped == <<"right", "left">>

Panes == <<"left", "right">>

\* The margins that agree with the three sizes of the test.
Margins ==
    {m \in 1..HalfWindow :
        /\ HalfWindow - SimilarSize < m
        /\ HalfWindow - LeftSize >= m
        /\ RightSize - HalfWindow >= m}

\* The sizes updateSplitSize is called with.
Sizes == {50 * k : k \in 0..20}

areBothSimilar(size, margin) ==
    /\ size > HalfWindow - margin
    /\ size < HalfWindow + margin

splitSizeUpdateAction(size, margin) ==
    [largerExploreId |->
        IF areBothSimilar(size, margin) THEN "undefined"
        ELSE IF size > HalfWindow THEN Panes[2] ELSE Panes[1]]

\* widthCalc of the render that follows the action: half the window when the
\* panes are even, the window times the ratio that was kept otherwise.
widthCalc(evenSplitPanes, size) ==
    IF evenSplitPanes THEN WindowWidth \div 2
    ELSE (WindowWidth * size) \div WindowWidth

\* renderHook(() => useSplitSizeUpdater(minWidth))
InitSplit ==
    /\ InitOf({})
    /\ passthrough = NoPassthrough
    /\ splitSize \in {[st |-> "rendered", minWidth |-> minWidth, margin |-> m, size |-> 0,
                       dispatched |-> [largerExploreId |-> "none"],
                       widthCalc |-> widthCalc(TRUE, 0)] : m \in Margins}
    /\ essentials = NoEssentials
    /\ summary = NoSummary

\* act(() => result.current.updateSplitSize(size))
updateSplitSize ==
    /\ splitSize.st # "none"
    /\ \E size \in Sizes :
          LET action == splitSizeUpdateAction(size, splitSize.margin)
          IN  splitSize' = [splitSize EXCEPT
                  !.st = "updated",
                  !.size = size,
                  !.dispatched = action,
                  !.widthCalc = widthCalc(action.largerExploreId = "undefined", size)]
    /\ UNCHANGED <<pc, call, obj, res, old, legacy, ret, ctxDone, task, metrics, storageLog>>
    /\ UNCHANGED <<passthrough, essentials, summary>>

NextSplit == updateSplitSize

SpecSplit == InitSplit /\ [][NextSplit]_vars

(***************************************************************************)
(* useGetEssentialsConfiguration.  The hook builds essentialContent, three *)
(* sections of steps, from the values of the hooks it calls, and counts    *)
(* the steps over the sections.  A step is kept as its title and the done  *)
(* of its button; done is "true", "false" or "undefined", and a button     *)
(* written without done reads as "undefined".                              *)
(***************************************************************************)
DoneValues == {"true", "false", "undefined"}

\* The expressions the done fields are written with.
Hooks ==
    {"isContactPointReady", "isOnCallContactPointReady", "useIsCreateAlertRuleDone",
     "hasSlos", "hasSlosWithAlerting", "isInstalled", "is_chatops_connected",
     "isChatOpsInstalled", "is_integration_chatops_connected"}

Step(title, done) == [title |-> title, button |-> [done |-> done]]

essentialContent(h) ==
    [sections |-> <<
        [title |-> "Detect",
         steps |-> <<Step("Update default email contact point", h["isContactPointReady"]),
                     Step("Connect alerting to OnCall", h["isOnCallContactPointReady"]),
                     Step("Create alert rule", h["useIsCreateAlertRuleDone"]),
                     Step("Create your first SLO", h["hasSlos"]),
                     Step("Enable SLO alerting", h["hasSlosWithAlerting"])>>],
        [title |-> "Respond",
         steps |-> <<Step("Initialize Incident plugin", h["isInstalled"]),
                     Step("Connect your Messaging workspace to OnCall", h["is_chatops_connected"]),
                     Step("Connect your Messaging workspace to Incident", h["isChatOpsInstalled"]),
                     Step("Add Messaging workspace channel to OnCall Integration",
                          h["is_integration_chatops_connected"])>>],
        [title |-> "Test your configuration",
         steps |-> <<Step("Send OnCall demo alert", "undefined"),
                     Step("Create Incident drill", "undefined")>>] >>]

\* section.steps.filter((step) => step.button.done).length
stepsDoneOf(section) ==
    Len(SelectSeq(section.steps, LAMBDA step : step.button.done = "true"))

\* Counts every step of the section.
totalStepsOfAll(steps, acc) == acc + Len(steps)

\* section.steps.reduce((acc, step) => (step.button.done !== undefined ? acc + 1 : acc), 0)
RECURSIVE totalStepsToForSection(_, _)
totalStepsToForSection(steps, acc) ==
    IF steps = << >>
    THEN acc
    ELSE totalStepsToForSection(Tail(steps),
            IF Head(steps).button.done # "undefined" THEN acc + 1 ELSE acc)

\* essentialContent.sections.reduce((acc, section) => ..., { stepsDone: 0, totalStepsToDo: 0 })
RECURSIVE reduceSections(_, _)
reduceSections(sections, acc) ==
    IF sections = << >>
    THEN acc
    ELSE reduceSections(Tail(sections),
            [stepsDone |-> acc.stepsDone + stepsDoneOf(Head(sections)),
             totalStepsToDo |-> acc.totalStepsToDo
                                + totalStepsToForSection(Head(sections).steps, 0)])

\* The component is mounted: the hooks have their values.
InitEssentials ==
    /\ InitOf({})
    /\ passthrough = NoPassthrough
    /\ splitSize = NoSplit
    /\ essentials \in {[st |-> "mounted", hooks |-> h,
                        essentialContent |-> [sections |-> << >>],
                        stepsDone |-> 0, totalStepsToDo |-> 0] : h \in [Hooks -> DoneValues]}
    /\ summary = NoSummary

useGetEssentialsConfiguration ==
    /\ essentials.st = "mounted"
    /\ LET content == essentialContent(essentials.hooks)
           counts == reduceSections(content.sections, [stepsDone |-> 0, totalStepsToDo |-> 0])
       IN  essentials' = [essentials EXCEPT
               !.st = "returned",
               !.essentialContent = content,
               !.stepsDone = counts.stepsDone,
               !.totalStepsToDo = counts.totalStepsToDo]
    /\ UNCHANGED <<pc, call, obj, res, old, legacy, ret, ctxDone, task, metrics, storageLog>>
    /\ UNCHANGED <<passthrough, splitSize, summary>>

NextEssentials == useGetEssentialsConfiguration

SpecEssentials == InitEssentials /\ [][NextEssentials]_vars

(***************************************************************************)
(* summarySupport (package sqlstash): the columns an object summary is     *)
(* stored in.  newSummarySupport fills them from a summary, with labels,   *)
(* fields and error as JSON text; toObjectSummary reads a summary back.    *)
(*                                                                         *)
(* A Go string, bool or float64 is a record [go, v]; a map is nil or a     *)
(* function from its keys; a pointer is nil or holds a value.  JSON text   *)
(* is the sequence of its members, a key and a token each, in the order    *)
(* json.Marshal writes them: the keys of a map sorted, the fields of a     *)
(* struct as declared.                                                     *)
(***************************************************************************)
GoString(v) == [go |-> "string", v |-> v]
GoBool(v) == [go |-> "bool", v |-> v]
GoFloat(v) == [go |-> "float64", v |-> v]

NoKeys == [k \in {} |-> GoString("")]
NilMap == [nil |-> TRUE, kv |-> NoKeys]
MakeMap(kv) == [nil |-> FALSE, kv |-> kv]
\* len(m)
MapLen(m) == Cardinality(DOMAIN m.kv)

NilPointer(zero) == [nil |-> TRUE, v |-> zero]
Pointer(v) == [nil |-> FALSE, v |-> v]

\* The keys of the maps, in sorted order.
KeyOrder == <<"a", "b", "f", "g">>

\* json.Marshal of one value.
MarshalValue(x) ==
    IF x.go = "string" THEN [json |-> "string", text |-> x.v]
    ELSE IF x.go = "bool" THEN [json |-> "literal", text |-> x.v]
    ELSE [json |-> "number", text |-> x.v]

\* json.Unmarshal of one token into an interface{}.
UnmarshalValue(t) ==
    IF t.json = "string" THEN GoString(t.text)
    ELSE IF t.json = "literal" THEN GoBool(t.text)
    ELSE GoFloat(t.text)

\* json.Marshal of a map: its members, keys sorted.
RECURSIVE MarshalKeys(_, _)
MarshalKeys(kv, keys) ==
    IF keys = << >>
    THEN << >>
    ELSE IF Head(keys) \in DOMAIN kv
         THEN <<[key |-> Head(keys), token |-> MarshalValue(kv[Head(keys)])]>>
              \o MarshalKeys(kv, Tail(keys))
         ELSE MarshalKeys(kv, Tail(keys))

MarshalMap(m) == [js |-> MarshalKeys(m.kv, KeyOrder), err |-> NoErr]

\* json.Marshal of an *ObjectErrorInfo.
MarshalError(e) ==
    [js |-> <<[key |-> "code", token |-> MarshalValue(GoFloat(e.code))],
              [key |-> "message", token |-> MarshalValue(GoString(e.message))]>>,
     err |-> NoErr]

ErrUnmarshalType == "json: cannot unmarshal into Go value of type string"

\* json.Unmarshal of an object into a map whose values are strings (elem
\* "string") or interface{} (elem "interface"): the members are set one by
\* one in a map that is made when the target is nil.
RECURSIVE UnmarshalMembers(_, _, _)
UnmarshalMembers(js, kv, elem) ==
    IF js = << >>
    THEN [m |-> MakeMap(kv), err |-> NoErr]
    ELSE LET member == Head(js)
         IN  IF elem = "string" /\ member.token.json # "string"
             THEN [m |-> MakeMap(kv), err |-> ErrUnmarshalType]
             ELSE UnmarshalMembers(Tail(js),
                    [k \in DOMAIN kv \cup {member.key} |->
                        IF k = member.key THEN UnmarshalValue(member.token) ELSE kv[k]],
                    elem)

UnmarshalMap(js, target, elem) == UnmarshalMembers(js, target.kv, elem)

NilError == [nil |-> TRUE, code |-> "", message |-> ""]
ErrorInfo(code, message) == [nil |-> FALSE, code |-> code, message |-> message]

\* json.Unmarshal of an object into a *ObjectErrorInfo: a new struct, its
\* fields set from the members that name them.
RECURSIVE UnmarshalError(_, _)
UnmarshalError(js, e) ==
    IF js = << >>
    THEN [e |-> e, err |-> NoErr]
    ELSE LET member == Head(js)
         IN  IF member.key = "code"
             THEN IF member.token.json # "number"
                  THEN [e |-> e, err |-> ErrUnmarshalType]
                  ELSE UnmarshalError(Tail(js), [e EXCEPT !.code = member.token.text])
             ELSE IF member.key = "message"
             THEN IF member.token.json # "string"
                  THEN [e |-> e, err |-> ErrUnmarshalType]
                  ELSE UnmarshalError(Tail(js), [e EXCEPT !.message = member.token.text])
             ELSE UnmarshalError(Tail(js), e)

\* *object.ObjectSummary, as far as summarySupport reads and writes it.
NilSummary ==
    [nil |-> TRUE, Name |-> "", Description |-> "", Labels |-> NilMap, Fields |-> NilMap,
     Error |-> NilError]
ObjectSummary(name, description, labels, fields, error) ==
    [nil |-> FALSE, Name |-> name, Description |-> description, Labels |-> labels,
     Fields |-> fields, Error |-> error]

\* The maps over the keys K with values in V: nil, empty, or with members.
MapsOf(K, V) ==
    {NilMap} \cup {MakeMap(kv) : kv \in UNION {[D -> V] : D \in SUBSET K}}

Summaries ==
    {NilSummary} \cup
    {ObjectSummary(name, description, labels, fields, error) :
        name \in {"", "n"}, description \in {"", "d"},
        labels \in MapsOf({"a", "b"}, {GoString(""), GoString("x")}),
        fields \in MapsOf({"f", "g"}, {GoString("s"), GoBool("true"), GoFloat("1")}),
        error \in {NilError, ErrorInfo("0", ""), ErrorInfo("1", "m")}}

\* summarySupport{}
EmptySupport ==
    [name |-> "", description |-> NilPointer(""), labels |-> NilPointer(<< >>),
     fields |-> NilPointer(<< >>), errors |-> NilPointer(<< >>)]

\* The fields column is filled from the labels.
newSummarySupportLabelsTwice(objSummary) ==
    IF objSummary.nil
    THEN [s |-> EmptySupport, err |-> NoErr]
    ELSE LET s1 == [EmptySupport EXCEPT
                       !.name = objSummary.Name,
                       !.description = IF objSummary.Description # ""
                                       THEN Pointer(objSummary.Description) ELSE @]
             labels == MarshalMap(objSummary.Labels)
             s2 == IF MapLen(objSummary.Labels) > 0
                   THEN [s1 EXCEPT !.labels = Pointer(labels.js)] ELSE s1
             s3 == IF MapLen(objSummary.Fields) > 0
                   THEN [s2 EXCEPT !.fields = Pointer(labels.js)] ELSE s2
             errors == MarshalError(objSummary.Error)
             s4 == IF ~objSummary.Error.nil
                   THEN [s3 EXCEPT !.errors = Pointer(errors.js)] ELSE s3
         IN  [s |-> s4, err |-> NoErr]

newSummarySupport(objSummary) ==
    IF objSummary.nil
    THEN [s |-> EmptySupport, err |-> NoErr]
    ELSE LET s1 == [EmptySupport EXCEPT
                       !.name = objSummary.Name,
                       !.description = IF objSummary.Description # ""
                                       THEN Pointer(objSummary.Description) ELSE @]
             labels == MarshalMap(objSummary.Labels)
             s2 == IF MapLen(objSummary.Labels) > 0
                   THEN [s1 EXCEPT !.labels = Pointer(labels.js)] ELSE s1
             fields == MarshalMap(objSummary.Fields)
             s3 == IF MapLen(objSummary.Fields) > 0
                   THEN [s2 EXCEPT !.fields = Pointer(fields.js)] ELSE s2
             errors == MarshalError(objSummary.Error)
             s4 == IF ~objSummary.Error.nil
                   THEN [s3 EXCEPT !.errors = Pointer(errors.js)] ELSE s3
         IN  IF MapLen(objSummary.Labels) > 0 /\ labels.err # NoErr
             THEN [s |-> s1, err |-> labels.err]
             ELSE IF MapLen(objSummary.Fields) > 0 /\ fields.err # NoErr
             THEN [s |-> s2, err |-> fields.err]
             ELSE IF ~objSummary.Error.nil /\ errors.err # NoErr
             THEN [s |-> s3, err |-> errors.err]
             ELSE [s |-> s4, err |-> NoErr]

toObjectSummary(s) ==
    LET m1 == [ObjectSummary(s.name, "", NilMap, NilMap, NilError) EXCEPT
                  !.Description = IF ~s.description.nil THEN s.description.v ELSE @]
        labels == UnmarshalMap(s.labels.v, m1.Labels, "string")
        m2 == IF ~s.labels.nil THEN [m1 EXCEPT !.Labels = labels.m] ELSE m1
        fields == UnmarshalMap(s.fields.v, m2.Fields, "interface")
        m3 == IF ~s.fields.nil THEN [m2 EXCEPT !.Fields = fields.m] ELSE m2
        errors == UnmarshalError(s.errors.v, ErrorInfo("", ""))
        m4 == IF ~s.errors.nil THEN [m3 EXCEPT !.Error = errors.e] ELSE m3
    IN  IF ~s.labels.nil /\ labels.err # NoErr
        THEN [summary |-> m2, err |-> labels.err]
        ELSE IF ~s.fields.nil /\ fields.err # NoErr
        THEN [summary |-> m3, err |-> fields.err]
        ELSE IF ~s.errors.nil /\ errors.err # NoErr
        THEN [summary |-> m4, err |-> errors.err]
        ELSE [summary |-> m4, err |-> NoErr]

\* A summary is about to be stored.
InitSummary ==
    /\ InitOf({})
    /\ passthrough = NoPassthrough
    /\ splitSize = NoSplit
    /\ essentials = NoEssentials
    /\ summary \in {[st |-> "summary", in |-> in, s |-> EmptySupport, err |-> NoErr,
                     out |-> NilSummary, errOut |-> NoErr] : in \in Summaries}

\* s, err := newSummarySupport(summary)
Store ==
    /\ summary.st = "summary"
    /\ LET r == newSummarySupport(summary.in)
       IN  summary' = [summary EXCEPT !.st = "stored", !.s = r.s, !.err = r.err]
    /\ UNCHANGED <<pc, call, obj, res, old, legacy, ret, ctxDone, task, metrics, storageLog>>
    /\ UNCHANGED <<passthrough, splitSize, essentials>>

\* summary, err := s.toObjectSummary()
Load ==
    /\ summary.st = "stored"
    /\ summary.err = NoErr
    /\ LET r == toObjectSummary(summary.s)
       IN  summary' = [summary EXCEPT !.st = "loaded", !.out = r.summary, !.errOut = r.err]
    /\ UNCHANGED <<pc, call, obj, res, old, legacy, ret, ctxDone, task, metrics, storageLog>>
    /\ UNCHANGED <<passthrough, splitSize, essentials>>

NextSummary ==
    \/ Store
    \/ Load

SpecSummary == InitSummary /\ [][NextSummary]_vars

(***************************************************************************)
(* Properties.                                                             *)
(***************************************************************************)
LegacyRecords(r) == SelectSeq(metrics[r], LAMBDA m : m.store = "legacy")
StorageRecords(r) == SelectSeq(metrics[r], LAMBDA m : m.store = "storage")

\* C1: when every Storage call of a request failed, the method returned
\* exactly the object, the flag and the error LegacyStorage returned, and the
\* goroutine recorded one Storage record, a failure.
C1_StorageFailureIsInvisible ==
    \A r \in Reqs :
        ( /\ pc[r] = "returned"
          /\ task[r].st = "ended"
          /\ task[r].err # NoErr
          /\ call[r].method = "update" => old[r] = Nil )
        => /\ ret[r] = legacy[r]
           /\ Len(StorageRecords(r)) = 1
           /\ StorageRecords(r)[1].failed

\* C2: no method waits for a Storage call on the caller's path: no request is
\* ever blocked in a Storage call that its method made itself.
C2_CallerNeverWaitsForStorage ==
    \A r \in Reqs : pc[r] # "storageGet"

\* C3: a Create on which LegacyStorage succeeded returns the object Legacy
\* returned and a nil error.
C3_CreateReturnsLegacyResult ==
    \A r \in Reqs :
        ( /\ pc[r] = "returned"
          /\ call[r].method = "create"
          /\ legacy[r].err = NoErr )
        => /\ ret[r].obj = legacy[r].obj
           /\ ret[r].err = NoErr

\* C4: a Create on which LegacyStorage failed returns Legacy's result and
\* error, starts no goroutine, leaves the input object as the caller passed
\* it and records exactly one Legacy record, a failure.
C4_CreateLegacyFailure ==
    \A r \in Reqs :
        ( /\ pc[r] = "returned"
          /\ call[r].method = "create"
          /\ legacy[r].err # NoErr )
        => /\ ret[r] = legacy[r]
           /\ task[r].st = "none"
           /\ obj[r] = call[r].obj
           /\ metrics[r] = << [store |-> "legacy", failed |-> TRUE, mode |-> mode,
                               name |-> KindLabel, method |-> "create"] >>

C4_Witness ==
    \E r \in Reqs :
        /\ pc[r] = "returned"
        /\ call[r].method = "create"
        /\ legacy[r].err = LegacyErr
        /\ ret[r].err = LegacyErr

\* C5: the object Update returns is the object Legacy.Update returned, with
\* the unique ID and the version token LegacyStorage assigned.
C5_UpdateReturnsLegacyObject ==
    \A r \in Reqs :
        (pc[r] = "returned" /\ call[r].method = "update")
        => ret[r].obj = legacy[r].obj

\* C6: after a Create on which LegacyStorage succeeded, the object
\* Storage.Create receives carries the unique ID and the version token of
\* the object Legacy.Create returned.
C6_StorageCreateCarriesLegacyIdentity ==
    \A r \in Reqs :
        (task[r].method = "create" /\ task[r].st \in {"called", "ended"})
        => /\ task[r].arg.kind = "meta"
           /\ task[r].arg.uid = legacy[r].obj.uid
           /\ task[r].arg.rv = legacy[r].obj.rv

\* C7: after an Update on which LegacyStorage succeeded, the object handed to
\* Storage.Update inside the update directive carries the unique ID and the
\* version token LegacyStorage assigned, also when Storage holds a copy with
\* an identity of its own.
C7_StorageUpdateCarriesLegacyIdentity ==
    \A r \in Reqs :
        ( /\ task[r].method = "update"
          /\ legacy[r].err = NoErr
          /\ task[r].info.wraps # << >> )
        => /\ Head(task[r].info.wraps).uid = legacy[r].obj.uid
           /\ Head(task[r].info.wraps).rv = legacy[r].obj.rv

\* C8: after a failure of LegacyStorage, a Create, Update, Delete or
\* DeleteCollection makes no Storage call: no goroutine, and no Storage.Get.
C8_NoStorageCallAfterLegacyFailure ==
    \A r \in Reqs :
        ( /\ call[r].method \in {"create", "update", "delete", "delete-collection"}
          /\ legacy[r].err # NoErr )
        => /\ task[r].st = "none"
           /\ pc[r] # "storageGet"

\* C9: a method that returned has recorded exactly one Legacy record, which
\* is a failure exactly when LegacyStorage returned an error.
C9_OneLegacyRecord ==
    \A r \in Reqs :
        pc[r] = "returned"
        => /\ Len(LegacyRecords(r)) = 1
           /\ LegacyRecords(r)[1].failed = (legacy[r].err # NoErr)

\* C10: the Storage call of a goroutine ends only by completing or by its own
\* timeout, never because the caller cancelled the context of the request.
C10_TaskEndsByCompletionOrTimeout ==
    \A r \in Reqs :
        task[r].st = "ended" => task[r].cause \in {"completed", "timeout"}

\* The calls of Storage that request r made, in the order Storage got them.
StorageCalls(r) == SelectSeq(storageLog, LAMBDA c : c.req = r)
MirrorCalls(r) == SelectSeq(storageLog, LAMBDA c : c.req = r /\ c.by = "goroutine")

\* C11: every call Storage receives is made under a derived context with a
\* deadline: the 10-unit timeout, and a cause that names the operation.
C11_EveryStorageCallHasDeadline ==
    \A i \in 1..Len(storageLog) :
        /\ storageLog[i].ctx.deadline
        /\ storageLog[i].ctx.timeout = 10
        /\ storageLog[i].ctx.cause # ""

\* C12: a goroutine that was started ends, and when it has ended it has
\* recorded exactly one Storage record, which is a failure exactly when the
\* Storage call returned an error; a timeout is recorded as a failure.
\* Before it ends it has recorded nothing.
C12_TaskEndsAndRecordsOnce ==
    /\ \A r \in Reqs : (task[r].st = "spawned") ~> (task[r].st = "ended")
    /\ [](\A r \in Reqs :
            IF task[r].st = "ended"
            THEN /\ Len(StorageRecords(r)) = 1
                 /\ StorageRecords(r)[1].failed = (task[r].err # NoErr)
                 /\ task[r].cause = "timeout" => StorageRecords(r)[1].failed
            ELSE Len(StorageRecords(r)) = 0)

C12_Witness ==
    \E r \in Reqs :
        /\ task[r].st = "ended"
        /\ task[r].cause = "timeout"
        /\ Len(StorageRecords(r)) = 1
        /\ StorageRecords(r)[1].failed

\* C13 (as stated): every Get and every List that returned has started a
\* shadow read of Storage.
C13_EveryReadStartsShadowRead ==
    \A r \in Reqs :
        (pc[r] = "returned" /\ call[r].method \in {"get", "list"})
        => task[r].st # "none"

\* C13 (amended): a Get or List returns what LegacyStorage returned, whatever
\* the shadow read does; when Legacy succeeded one shadow read of the same
\* method is started and reaches Storage, from the goroutine and once; when
\* Legacy failed no shadow read is started.
C13_ShadowReadAfterLegacySuccess ==
    /\ [](\A r \in Reqs :
            (pc[r] = "returned" /\ call[r].method \in {"get", "list"})
            => /\ ret[r] = legacy[r]
               /\ legacy[r].err = NoErr =>
                     (task[r].st # "none" /\ task[r].method = call[r].method)
               /\ legacy[r].err # NoErr =>
                     (task[r].st = "none" /\ StorageCalls(r) = << >>)
               /\ Len(StorageCalls(r)) <= 1)
    /\ \A r \in Reqs :
          (pc[r] = "returned" /\ call[r].method \in {"get", "list"}
              /\ legacy[r].err = NoErr)
          ~> ( /\ Len(StorageCalls(r)) = 1
               /\ StorageCalls(r)[1].method = call[r].method
               /\ StorageCalls(r)[1].by = "goroutine" )

C13_Witness ==
    \E r \in Reqs :
        /\ call[r].method \in {"get", "list"}
        /\ task[r].st = "ended"
        /\ task[r].err # NoErr
        /\ ret[r] = legacy[r]
        /\ ret[r].err = NoErr

C15_DirectiveReceivesStorageCopy ==
    \A r \in Reqs :
        (call[r].method = "update" /\ task[r].st # "none" /\ old[r] # Nil)
        => \A cur \in {Nil, res[r], Object("meta", "uid-other", "rv-other", {}, "other")} :
              LET base == UpdatedObjectBase(task[r].info, cur)
              IN  /\ base = old[r]
                  /\ base.uid = "uid-storage"
                  /\ base.rv = "rv-storage"
                  /\ base.spec = "stale"
                  /\ base # res[r]

C15_Witness ==
    \E r \in Reqs :
        /\ call[r].method = "update"
        /\ task[r].st = "called"
        /\ old[r].kind = "meta"
        /\ Len(task[r].info.wraps) = 2

\* C16: when meta.Accessor fails for the created object or for the input
\* object after Legacy.Create succeeded, Create returns Legacy's object with
\* a nil error and starts the goroutine for Storage.Create.
C16_AccessorErrorNotReturned ==
    \A r \in Reqs :
        ( /\ pc[r] = "returned"
          /\ call[r].method = "create"
          /\ legacy[r].err = NoErr
          /\ (legacy[r].obj.kind # "meta" \/ call[r].obj.kind # "meta") )
        => /\ ret[r].obj = legacy[r].obj
           /\ ret[r].err = NoErr
           /\ task[r].st # "none"

\* C17: Update never crashes: a request that is past Storage.Get has
\* returned, also when an accessor cannot be obtained for the copy found or
\* for the object (or the nil) Legacy.Update returned.
C17_UpdateNeverPanics ==
    \A r \in Reqs : pc[r] # "panicked"

\* C18: no call of Storage is made, and no goroutine is started, before
\* LegacyStorage has returned; the goroutine is started in the step that
\* follows the return of Legacy (or of Storage.Get in Update), after the
\* input object of Create was reconciled, and the method returns with it.
C18_StorageAfterLegacy ==
    /\ [](\A r \in Reqs :
            pc[r] \in {"idle", "legacy"}
            => (task[r].st = "none" /\ StorageCalls(r) = << >>))
    /\ [][\A r \in Reqs :
            (task[r].st = "none" /\ task'[r].st # "none")
            => /\ pc[r] \in {"legacy", "storageGet"}
               /\ pc'[r] = "returned"
               /\ ret'[r].obj = res'[r]
               /\ call[r].method = "create" =>
                     obj'[r] = enrichObject(call[r].obj, legacy'[r].obj)]_vars

C18_Witness ==
    \E r \in Reqs :
        /\ pc[r] = "returned"
        /\ call[r].method = "create"
        /\ task[r].st = "called"
        /\ Len(StorageCalls(r)) = 1
        /\ obj[r].uid = "uid-legacy"

\* C19: the goroutines of two writes are not ordered: whenever the
\* goroutines of an earlier and of a later request are both waiting to run,
\* the later one can make its Storage call first.
C19_MirrorsAreNotOrdered ==
    \A r1 \in OrderReqs : \A r2 \in OrderReqs :
        (r1 < r2 /\ task[r1].st = "spawned" /\ task[r2].st = "spawned")
        => ENABLED TaskCall(r2)

\* An Update and then a Delete of the resource, both done by LegacyStorage;
\* Storage got the Delete first and the Update second, and did both: Legacy
\* ends without the resource, Storage with it.
C19_Witness ==
    \E r1 \in OrderReqs : \E r2 \in OrderReqs :
        /\ r1 < r2
        /\ call[r1].method = "update" /\ call[r2].method = "delete"
        /\ call[r1].label = call[r2].label
        /\ legacy[r1].err = NoErr /\ legacy[r2].err = NoErr
        /\ task[r1].st = "ended" /\ task[r1].err = NoErr
        /\ task[r2].st = "ended" /\ task[r2].err = NoErr
        /\ \E i \in 1..Len(storageLog) : \E j \in 1..Len(storageLog) :
              /\ i < j
              /\ storageLog[i].req = r2 /\ storageLog[i].method = "delete"
              /\ storageLog[j].req = r1 /\ storageLog[j].method = "update"

\* C20: no retry: a request makes at most one Storage call from its
\* goroutine, of its own method, and besides it only the one Storage.Get of
\* Update; once the goroutine has ended, whatever the outcome, the request
\* makes no further Storage call.
C20_NoRetry ==
    /\ [](\A r \in Reqs :
            /\ Len(MirrorCalls(r)) <= 1
            /\ \A i \in 1..Len(MirrorCalls(r)) : MirrorCalls(r)[i].method = call[r].method
            /\ Len(StorageCalls(r)) - Len(MirrorCalls(r))
                  <= (IF call[r].method = "update" THEN 1 ELSE 0))
    /\ [][\A r \in Reqs :
            task[r].st = "ended"
            => (task'[r].st = "ended" /\ StorageCalls(r)' = StorageCalls(r))]_vars

C20_Witness ==
    \E r \in Reqs :
        /\ call[r].method = "update"
        /\ task[r].st = "ended"
        /\ task[r].err # NoErr
        /\ Len(StorageCalls(r)) = 2
        /\ Len(MirrorCalls(r)) = 1

\* C21: the methods that only delegate.  GetSingularName, NamespaceScoped, New
\* and ConvertToTable make one call, of the same method of Legacy, and return
\* what it returned; NewList makes one call, of Storage.NewList, and returns
\* what it returned; Destroy makes two calls, one Destroy of each store.
C21_PassthroughsDelegate ==
    \A i \in 1..Len(passthrough) :
        LET e == passthrough[i]
            on(store) == SelectSeq(e.calls, LAMBDA c : c.store = store)
        IN  /\ e.method \in {"GetSingularName", "NamespaceScoped", "New", "ConvertToTable"}
                => /\ Len(e.calls) = 1
                   /\ e.calls[1].store = "legacy"
                   /\ e.calls[1].method = e.method
                   /\ e.calls[1].arg = e.arg
                   /\ e.ret = e.calls[1].value
                   /\ e.ret.of = "legacy"
            /\ e.method = "NewList"
                => /\ Len(e.calls) = 1
                   /\ e.calls[1].store = "storage"
                   /\ e.calls[1].method = "NewList"
                   /\ e.ret = e.calls[1].value
                   /\ e.ret.of = "storage"
            /\ e.method = "Destroy"
                => /\ Len(e.calls) = 2
                   /\ Len(on("legacy")) = 1
                   /\ Len(on("storage")) = 1
                   /\ \A k \in 1..2 : e.calls[k].method = "Destroy"

\* Destroy, NewList and a method that delegates to Legacy were called.
C21_Witness ==
    /\ Len(passthrough) = 3
    /\ passthrough[1].method = "NewList"
    /\ passthrough[2].method = "ConvertToTable"
    /\ passthrough[3].method = "Destroy"

C23_DirectiveReceivesReconciledResult ==
    \A r \in Reqs :
        (call[r].method = "update" /\ task[r].st # "none" /\ old[r] # Nil)
        => \A cur \in {Nil, old[r]} :
              LET base == UpdatedObjectBase(task[r].info, cur)
              IN  /\ base = res[r]
                  /\ base.spec = "patched"

\* C23, amended: when Storage.Get returned a copy, the second wrapper holds the
\* reconciled Legacy result (the fields Legacy wrote, with the unique ID and
\* version token of the copy) but hands it only to the first wrapper, which
\* drops it: the caller's directive receives the fetched copy, with the fields
\* Storage holds.
C23_SecondWrapperIsDropped ==
    \A r \in Reqs :
        (call[r].method = "update" /\ task[r].st # "none" /\ old[r] # Nil)
        => /\ Head(task[r].info.wraps) = res[r]
           /\ res[r].spec = "patched"
           /\ res[r].uid = "uid-storage"
           /\ res[r].rv = "rv-storage"
           /\ \A cur \in {Nil, res[r]} :
                 /\ UpdatedObjectBase(task[r].info, cur).spec = "stale"
                 /\ UpdatedObjectBase(task[r].info, cur) # Head(task[r].info.wraps)

\* Update returned with a copy found; the goroutine has not called Storage yet.
C23_Witness ==
    \E r \in Reqs :
        /\ call[r].method = "update"
        /\ pc[r] = "returned"
        /\ task[r].st = "spawned"
        /\ Len(task[r].info.wraps) = 2
        /\ res[r].spec = "patched"
        /\ old[r].spec = "stale"

\* C24: the object the goroutine of a Create hands to Storage.Create is the
\* reconciled object as it was when Create returned: a write the caller makes
\* to its input object after the return does not reach Storage.Create.
C24_ReconciledObjectIsPrivate ==
    \A r \in Reqs :
        (task[r].method = "create" /\ task[r].st \in {"called", "ended"})
        => /\ task[r].arg = enrichObject(call[r].obj, legacy[r].obj)
           /\ task[r].arg.uid # "uid-rewritten"
           /\ task[r].arg.rv # "rv-rewritten"

\* C25: every metric record of a request, of Legacy and of Storage, carries
\* mode "1", the name of the method of the request, and as third label
\* options.Kind for create, list and delete-collection and the name of the
\* resource for get, delete and update; so the Legacy records and the Storage
\* records of a request carry the same three labels.
C25_RecordsCarrySameLabels ==
    \A r \in Reqs :
        /\ \A i \in 1..Len(metrics[r]) :
              /\ metrics[r][i].mode = "1"
              /\ metrics[r][i].method = call[r].method
              /\ metrics[r][i].method \in
                    {"create", "get", "list", "delete", "delete-collection", "update"}
              /\ metrics[r][i].name =
                    IF call[r].method \in {"create", "list", "delete-collection"}
                    THEN "kind" ELSE "name"
        /\ \A i, j \in 1..Len(metrics[r]) :
              /\ metrics[r][i].mode = metrics[r][j].mode
              /\ metrics[r][i].name = metrics[r][j].name
              /\ metrics[r][i].method = metrics[r][j].method

\* An Update made a Legacy record and a Storage record.
C25_Witness ==
    \E r \in Reqs :
        /\ call[r].method = "update"
        /\ \E i, j \in 1..Len(metrics[r]) :
              /\ metrics[r][i].store = "legacy"
              /\ metrics[r][j].store = "storage"
              /\ metrics[r][j].name = "name"

\* C26: what useGetEssentialsConfiguration returns has 0 <= stepsDone <=
\* totalStepsToDo; stepsDone is the number of steps whose button.done is true,
\* totalStepsToDo the number of steps whose button.done is defined; the two
\* steps written without done, the drop-down step and the incident drill
\* step, are in neither count.
C26_StepsDoneWithinTotal ==
    essentials.st = "returned"
    => LET sections == essentials.essentialContent.sections
           steps == {<<i, j>> \in (1..3) \X (1..5) :
                        i <= Len(sections) /\ j <= Len(sections[i].steps)}
           done(p) == sections[p[1]].steps[p[2]].button.done
           withoutDone == {p \in steps :
                             sections[p[1]].steps[p[2]].title
                                \in {"Send OnCall demo alert", "Create Incident drill"}}
       IN  /\ 0 <= essentials.stepsDone
           /\ essentials.stepsDone <= essentials.totalStepsToDo
           /\ essentials.stepsDone = Cardinality({p \in steps : done(p) = "true"})
           /\ essentials.totalStepsToDo = Cardinality({p \in steps : done(p) # "undefined"})
           /\ Cardinality(steps) = 11
           /\ Cardinality(withoutDone) = 2
           /\ \A p \in withoutDone : done(p) = "undefined"
           /\ essentials.totalStepsToDo <= Cardinality(steps \ withoutDone)

\* Some steps are done, some are not, and the incident plugin is not there.
C26_Witness ==
    /\ essentials.st = "returned"
    /\ essentials.hooks["isInstalled"] = "undefined"
    /\ essentials.hooks["isChatOpsInstalled"] = "undefined"
    /\ essentials.stepsDone = 3
    /\ essentials.totalStepsToDo = 7

====
